---- MODULE Spec2Model ----
(***************************************************************************)
(* A model of frontend/app.js: the streaming chat client.                  *)
(*                                                                         *)
(* Text is a sequence of code points and a byte chunk a sequence of bytes, *)
(* both sequences of integers, so that the UTF-8 decoding, the search for  *)
(* the blank-line separator, the line splitting, the trimming and the      *)
(* JSON parsing are computed on the characters as the code computes them.  *)
(***************************************************************************)
EXTENDS Integers, Sequences, FiniteSets, TLC

(***************************************************************************)
(* Characters of the wire format.                                          *)
(***************************************************************************)
LF == 10
TAB == 9
CR == 13
SPACE == 32
QUOTE == 34
BACKSLASH == 92
COLON == 58
LBRACE == 123
RBRACE == 125
REPLACEMENT == 65533

\* JavaScript's null; no text is equal to it (a code point is never negative).
Null == <<-1>>

EventPrefix == <<101, 118, 101, 110, 116, 58>>  \* 'event:'
DataPrefix == <<100, 97, 116, 97, 58>>  \* 'data:'
NameMessage == <<109, 101, 115, 115, 97, 103, 101>>  \* 'message'
NameMeta == <<109, 101, 116, 97>>  \* 'meta'
NameDelta == <<100, 101, 108, 116, 97>>  \* 'delta'
NameStats == <<115, 116, 97, 116, 115>>  \* 'stats'
NameError == <<101, 114, 114, 111, 114>>  \* 'error'
NameDone == <<100, 111, 110, 101>>  \* 'done'
KeyConversationId ==
  <<99, 111, 110, 118, 101, 114, 115, 97, 116, 105, 111, 110, 95, 105, 100>>  \* 'conversation_id'
KeyDelta == <<100, 101, 108, 116, 97>>  \* 'delta'
KeyMessage == <<109, 101, 115, 115, 97, 103, 101>>  \* 'message'
TextNull == <<110, 117, 108, 108>>  \* 'null'
StreamErrorText == <<115, 116, 114, 101, 97, 109, 32, 101, 114, 114, 111, 114>>  \* 'stream error'
EventStreamType ==
  <<116, 101, 120, 116, 47, 101, 118, 101, 110, 116, 45, 115, 116, 114, 101, 97, 109>>  \* 'text/event-stream'

(***************************************************************************)
(* Sequence helpers.                                                       *)
(***************************************************************************)
Min(S) == CHOOSE x \in S : \A y \in S : x <= y

\* s.slice(from) with a 0-based from, as in JavaScript.
SliceFrom(s, from) == SubSeq(s, from + 1, Len(s))

\* s.slice(0, to) with a 0-based exclusive to.
SliceTo(s, to) == SubSeq(s, 1, to)

\* s.startsWith(p)
StartsWith(s, p) == Len(s) >= Len(p) /\ SubSeq(s, 1, Len(p)) = p

\* s.includes(p)
Includes(s, p) ==
  \E i \in 0..(Len(s) - Len(p)) : SubSeq(s, i + 1, i + Len(p)) = p

\* s.toLowerCase() on the ASCII letters
ToLowerCase(s) == [i \in 1..Len(s) |-> IF s[i] >= 65 /\ s[i] <= 90 THEN s[i] + 32 ELSE s[i]]

\* The white space String.prototype.trim removes, among the characters of the model.
IsSpace(c) == c \in {SPACE, TAB, CR, LF}

\* s.trim()
Trim(s) ==
  LET keep == {i \in 1..Len(s) : ~IsSpace(s[i])}
  IN IF keep = {} THEN <<>>
     ELSE SubSeq(s, Min(keep), CHOOSE i \in keep : \A j \in keep : j <= i)

\* buffer.indexOf('\n\n'): the 0-based index of the first blank-line separator, -1 if none.
IndexOfSep(buffer) ==
  LET hits == {i \in 1..(Len(buffer) - 1) : buffer[i] = LF /\ buffer[i + 1] = LF}
  IN IF hits = {} THEN -1 ELSE Min(hits) - 1

\* chunk.split('\n')
RECURSIVE Split(_)
Split(s) ==
  LET nl == {i \in 1..Len(s) : s[i] = LF}
  IN IF nl = {} THEN <<s>>
     ELSE <<SubSeq(s, 1, Min(nl) - 1)>> \o Split(SubSeq(s, Min(nl) + 1, Len(s)))

(***************************************************************************)
(* new TextDecoder('utf-8') used with { stream: true }: the UTF-8 decoder  *)
(* of the platform.  Its state between two calls is the part of a          *)
(* multi-byte character seen so far.                                       *)
(***************************************************************************)
DecoderInit == [cp |-> 0, seen |-> 0, needed |-> 0, lo |-> 128, hi |-> 191]

\* One byte: the code points written, the next state, and whether the byte is read again.
DecodeByte(st, b) ==
  IF st.needed = 0
  THEN IF b <= 127 THEN [out |-> <<b>>, st |-> DecoderInit, again |-> FALSE]
       ELSE IF b >= 194 /\ b <= 223
       THEN [out |-> <<>>, again |-> FALSE,
             st |-> [DecoderInit EXCEPT !.needed = 1, !.cp = b - 192]]
       ELSE IF b >= 224 /\ b <= 239
       THEN [out |-> <<>>, again |-> FALSE,
             st |-> [DecoderInit EXCEPT !.needed = 2, !.cp = b - 224,
                                         !.lo = IF b = 224 THEN 160 ELSE 128,
                                         !.hi = IF b = 237 THEN 159 ELSE 191]]
       ELSE IF b >= 240 /\ b <= 244
       THEN [out |-> <<>>, again |-> FALSE,
             st |-> [DecoderInit EXCEPT !.needed = 3, !.cp = b - 240,
                                         !.lo = IF b = 240 THEN 144 ELSE 128,
                                         !.hi = IF b = 244 THEN 143 ELSE 191]]
       ELSE [out |-> <<REPLACEMENT>>, st |-> DecoderInit, again |-> FALSE]
  ELSE IF b < st.lo \/ b > st.hi
       THEN [out |-> <<REPLACEMENT>>, st |-> DecoderInit, again |-> TRUE]
       ELSE IF st.seen + 1 = st.needed
            THEN [out |-> <<st.cp * 64 + (b - 128)>>, st |-> DecoderInit, again |-> FALSE]
            ELSE [out |-> <<>>, again |-> FALSE,
                  st |-> [st EXCEPT !.cp = st.cp * 64 + (b - 128), !.seen = st.seen + 1,
                                    !.lo = 128, !.hi = 191]]

\* The bytes of one call after the other.  A run of ASCII bytes outside a character
\* is written as it is, each byte being its own code point.
RECURSIVE DecodeBytes(_, _)
DecodeBytes(st, bytes) ==
  IF bytes = <<>> THEN [text |-> <<>>, st |-> st]
  ELSE IF st.needed = 0 /\ Head(bytes) <= 127
  THEN LET high == {i \in 1..Len(bytes) : bytes[i] > 127}
           k == IF high = {} THEN Len(bytes) + 1 ELSE Min(high)
           more == DecodeBytes(st, SubSeq(bytes, k, Len(bytes)))
       IN [text |-> SubSeq(bytes, 1, k - 1) \o more.text, st |-> more.st]
  ELSE LET r == DecodeByte(st, Head(bytes))
           more == DecodeBytes(r.st, IF r.again THEN bytes ELSE Tail(bytes))
       IN [text |-> r.out \o more.text, st |-> more.st]

\* Decode without { stream: true }: every chunk is decoded on its own, and the bytes
\* of a character the chunk ends in become U+FFFD.
DecodeNoStream(st, bytes) ==
  LET r == DecodeBytes(DecoderInit, bytes)
  IN [text |-> r.text \o (IF r.st.needed # 0 THEN <<REPLACEMENT>> ELSE <<>>),
      st |-> DecoderInit]

\* decoder.decode(value, { stream: true }): the text of the chunk and the decoder's next
\* state, which holds the bytes of a character the chunk ends in.
Decode(st, bytes) == DecodeBytes(st, bytes)

(***************************************************************************)
(* JSON.parse on the payload texts of the modelled streams: null, {} and   *)
(* an object of one member whose value is a string, written without white  *)
(* space and without escapes.  The streams hold no other valid JSON text,  *)
(* so every other text is one JSON.parse throws on.                        *)
(***************************************************************************)
JsonError == [kind |-> "error", key |-> <<>>, val |-> <<>>, n |-> 0]
JsonNull == [kind |-> "null", key |-> <<>>, val |-> <<>>, n |-> 0]
JsonEmptyObject == [kind |-> "object", key |-> <<>>, val |-> <<>>, n |-> 0]

\* The characters a JSON string may hold unescaped.
PlainChars(s) == \A i \in 1..Len(s) : s[i] >= SPACE /\ s[i] # QUOTE /\ s[i] # BACKSLASH

JSONParse(t) ==
  IF t = TextNull THEN JsonNull
  ELSE IF t = <<LBRACE, RBRACE>> THEN JsonEmptyObject
  ELSE IF Len(t) >= 7 /\ t[1] = LBRACE /\ t[2] = QUOTE /\ t[Len(t)] = RBRACE
          /\ t[Len(t) - 1] = QUOTE
       THEN LET q == {i \in 3..(Len(t) - 4) :
                        t[i] = QUOTE /\ t[i + 1] = COLON /\ t[i + 2] = QUOTE}
            IN IF q = {} THEN JsonError
               ELSE LET k == SubSeq(t, 3, Min(q) - 1)
                        v == SubSeq(t, Min(q) + 3, Len(t) - 2)
                    IN IF PlainChars(k) /\ PlainChars(v)
                       THEN [kind |-> "object", key |-> k, val |-> v, n |-> 1]
                       ELSE JsonError
       ELSE JsonError

\* typeof data?.[key] === 'string'
HasString(data, key) == data.kind = "object" /\ data.n = 1 /\ data.key = key

\* data?.[key] where a truthy value is needed: a non-empty string, else Null.
Truthy(data, key) ==
  IF HasString(data, key) /\ data.val # <<>> THEN data.val ELSE Null

(***************************************************************************)
(* A frame-block: its event name and its data text.                        *)
(***************************************************************************)
RECURSIVE ParseLines(_, _, _)
ParseLines(lines, eventName, dataJson) ==
  IF lines = <<>> THEN [eventName |-> eventName, dataJson |-> dataJson]
  ELSE LET line == Head(lines)
           name == IF StartsWith(line, EventPrefix)
                   THEN Trim(SliceFrom(line, Len(EventPrefix))) ELSE eventName
           json == IF StartsWith(line, DataPrefix)
                   THEN dataJson \o Trim(SliceFrom(line, Len(DataPrefix))) ELSE dataJson
       IN ParseLines(Tail(lines), name, json)

ParseBlock(chunk) == ParseLines(Split(chunk), NameMessage, <<>>)

(***************************************************************************)
(* The inputs: texts, the response headers and the byte streams of the     *)
(* server.  A stream is the sequence of pieces the server writes; the      *)
(* transport delivers them whole, joined, or cut anywhere.                 *)
(***************************************************************************)
IdC1 == <<99, 49>>  \* 'c1'
IdC2 == <<99, 50>>  \* 'c2'
MsgHello == <<104, 101, 108, 108, 111>>  \* 'hello'
MsgBlank == <<32, 32>>  \* '  '
CtEventStream ==
  <<116, 101, 120, 116, 47, 101, 118, 101, 110, 116, 45, 115, 116, 114, 101, 97, 109>>  \* 'text/event-stream'
CtEventStreamCharset ==
  <<84, 101, 120, 116, 47, 69, 118, 101, 110, 116, 45, 83, 116, 114, 101, 97, 109, 59,
    32, 99, 104, 97, 114, 115, 101, 116, 61, 117, 116, 102, 45, 56>>  \* 'Text/Event-Stream; charset=utf-8'
CtJson ==
  <<97, 112, 112, 108, 105, 99, 97, 116, 105, 111, 110, 47, 106, 115, 111, 110>>  \* 'application/json'

\* 'event: meta\ndata: {"conversation_id":"c1"}\n\n'
BlkMetaC1 ==
  <<101, 118, 101, 110, 116, 58, 32, 109, 101, 116, 97, 10, 100, 97, 116, 97, 58, 32,
    123, 34, 99, 111, 110, 118, 101, 114, 115, 97, 116, 105, 111, 110, 95, 105, 100, 34,
    58, 34, 99, 49, 34, 125, 10, 10>>
\* 'event:meta\ndata:{"conversation_id":"c2"}\n\n'
BlkMetaC2 ==
  <<101, 118, 101, 110, 116, 58, 109, 101, 116, 97, 10, 100, 97, 116, 97, 58, 123, 34,
    99, 111, 110, 118, 101, 114, 115, 97, 116, 105, 111, 110, 95, 105, 100, 34, 58, 34,
    99, 50, 34, 125, 10, 10>>
\* 'event:meta\ndata:{"conversation_id":""}\n\n'
BlkMetaEmpty ==
  <<101, 118, 101, 110, 116, 58, 109, 101, 116, 97, 10, 100, 97, 116, 97, 58, 123, 34,
    99, 111, 110, 118, 101, 114, 115, 97, 116, 105, 111, 110, 95, 105, 100, 34, 58, 34,
    34, 125, 10, 10>>
\* 'event: delta\ndata: {"delta":"Hi"}\n\n'
BlkDeltaHi ==
  <<101, 118, 101, 110, 116, 58, 32, 100, 101, 108, 116, 97, 10, 100, 97, 116, 97, 58,
    32, 123, 34, 100, 101, 108, 116, 97, 34, 58, 34, 72, 105, 34, 125, 10, 10>>
\* 'event:delta\ndata:{"delta":"é€"}\n\n'
BlkDeltaMultiByte ==
  <<101, 118, 101, 110, 116, 58, 100, 101, 108, 116, 97, 10, 100, 97, 116, 97, 58, 123,
    34, 100, 101, 108, 116, 97, 34, 58, 34, 195, 169, 226, 130, 172, 34, 125, 10, 10>>
\* 'event:delta\ndata:{"delta":\ndata: "ab"}\n\n'
BlkDeltaTwoLines ==
  <<101, 118, 101, 110, 116, 58, 100, 101, 108, 116, 97, 10, 100, 97, 116, 97, 58, 123,
    34, 100, 101, 108, 116, 97, 34, 58, 10, 100, 97, 116, 97, 58, 32, 34, 97, 98, 34,
    125, 10, 10>>
\* 'event:stats\ndata:{}\n\n'
BlkStats ==
  <<101, 118, 101, 110, 116, 58, 115, 116, 97, 116, 115, 10, 100, 97, 116, 97, 58, 123,
    125, 10, 10>>
\* 'event:stats\ndata:null\n\n'
BlkStatsNull ==
  <<101, 118, 101, 110, 116, 58, 115, 116, 97, 116, 115, 10, 100, 97, 116, 97, 58, 110,
    117, 108, 108, 10, 10>>
\* 'event:error\ndata:{"message":"boom"}\n\n'
BlkError ==
  <<101, 118, 101, 110, 116, 58, 101, 114, 114, 111, 114, 10, 100, 97, 116, 97, 58, 123,
    34, 109, 101, 115, 115, 97, 103, 101, 34, 58, 34, 98, 111, 111, 109, 34, 125, 10, 10>>
\* 'event: done\ndata: {}\n\n'
BlkDone ==
  <<101, 118, 101, 110, 116, 58, 32, 100, 111, 110, 101, 10, 100, 97, 116, 97, 58, 32,
    123, 125, 10, 10>>
\* 'event:done\ndata:{"conversation_id":"c2"}\n\n'
BlkDoneC2 ==
  <<101, 118, 101, 110, 116, 58, 100, 111, 110, 101, 10, 100, 97, 116, 97, 58, 123, 34,
    99, 111, 110, 118, 101, 114, 115, 97, 116, 105, 111, 110, 95, 105, 100, 34, 58, 34,
    99, 50, 34, 125, 10, 10>>
\* 'event: delta\ndata: not-json\n\n'
BlkBadJson ==
  <<101, 118, 101, 110, 116, 58, 32, 100, 101, 108, 116, 97, 10, 100, 97, 116, 97, 58,
    32, 110, 111, 116, 45, 106, 115, 111, 110, 10, 10>>
\* 'event:delta\n\n'
BlkNoData ==
  <<101, 118, 101, 110, 116, 58, 100, 101, 108, 116, 97, 10, 10>>
\* 'event:ping\ndata:{"delta":"x"}\n\n'
BlkUnknown ==
  <<101, 118, 101, 110, 116, 58, 112, 105, 110, 103, 10, 100, 97, 116, 97, 58, 123, 34,
    100, 101, 108, 116, 97, 34, 58, 34, 120, 34, 125, 10, 10>>
\* 'data:{"delta":"x"}\n\n'
BlkNoEvent ==
  <<100, 97, 116, 97, 58, 123, 34, 100, 101, 108, 116, 97, 34, 58, 34, 120, 34, 125, 10,
    10>>
\* 'event:error\ndata:oops\n\n'
BlkErrorBadJson ==
  <<101, 118, 101, 110, 116, 58, 101, 114, 114, 111, 114, 10, 100, 97, 116, 97, 58, 111,
    111, 112, 115, 10, 10>>
\* 'event:done\n\n'
BlkDoneNoData ==
  <<101, 118, 101, 110, 116, 58, 100, 111, 110, 101, 10, 10>>
\* 'event:error\n\n'
BlkErrorNoData ==
  <<101, 118, 101, 110, 116, 58, 101, 114, 114, 111, 114, 10, 10>>
\* 'event: done\ndata: {"conversation_id":\n\n'
BlkDoneBadJson ==
  <<101, 118, 101, 110, 116, 58, 32, 100, 111, 110, 101, 10, 100, 97, 116, 97, 58, 32,
    123, 34, 99, 111, 110, 118, 101, 114, 115, 97, 116, 105, 111, 110, 95, 105, 100, 34,
    58, 10, 10>>
\* 'event:done\ndata:{}\n'
TailDone ==
  <<101, 118, 101, 110, 116, 58, 100, 111, 110, 101, 10, 100, 97, 116, 97, 58, 123, 125,
    10>>
\* 'é'
TailBytes ==
  <<195, 169>>
\* An error, a meta and a delta frame-block that the end of the stream cuts short of the
\* blank line.
TailError == SliceTo(BlkError, Len(BlkError) - 2)
TailMetaC2 == SliceTo(BlkMetaC2, Len(BlkMetaC2) - 1)
TailDelta == SliceTo(BlkDeltaHi, Len(BlkDeltaHi) - 2)

\* The streams of the server, each a sequence of pieces.
Scripts ==
  << <<BlkMetaC1, BlkDeltaHi, BlkDone>>,
     <<BlkStats, BlkMetaC1, BlkDoneC2, BlkDeltaHi>>,
     <<BlkDeltaHi, BlkError, BlkMetaC2>>,
     <<BlkMetaC1, BlkBadJson, BlkNoData \o BlkUnknown, BlkDeltaHi, TailDone>>,
     <<BlkDeltaMultiByte, BlkDeltaTwoLines, BlkNoEvent, BlkDoneNoData, BlkDone>>,
     <<BlkMetaEmpty, BlkStatsNull, BlkErrorBadJson, BlkMetaC2, BlkError>>,
     <<BlkMetaC2, TailBytes>>,
     <<BlkDeltaHi, TailError>>,
     <<TailMetaC2>>,
     <<BlkMetaC1, TailDelta>>,
     <<BlkErrorBadJson, BlkDoneNoData, BlkErrorNoData \o BlkDoneBadJson, BlkDeltaHi>>,
     <<BlkDeltaHi>> >>

RECURSIVE Flatten(_)
Flatten(pieces) == IF pieces = <<>> THEN <<>> ELSE Head(pieces) \o Flatten(Tail(pieces))

\* The bytes of stream sid.
Bytes(sid) == Flatten(Scripts[sid])

\* The positions at which the server ends a piece of stream sid.
RECURSIVE Marks(_, _)
Marks(pieces, at) ==
  IF pieces = <<>> THEN {}
  ELSE {at + Len(Head(pieces))} \cup Marks(Tail(pieces), at + Len(Head(pieces)))

(***************************************************************************)
(* The state of the page.                                                  *)
(***************************************************************************)
VARIABLES
  conversationId,    \* the module's conversationId: Null or a text
  storage,           \* localStorage's entry for the conversation id: Null or a text
  usagePage, usagePageSize, usageTotal, usageItems,
  historyPage, historyPageSize, historyTotal, historyItems,
  viewStatsHidden,   \* viewStatsEl.hidden
  dom,               \* the disabled flags of the four page buttons
  stream,            \* the submit handler and its call of runAgentStream
  tasks,             \* the click handlers that await a page fetch
  uploadItems,       \* the module's uploadItems
  uploads,           \* how many calls of loadUploads await their fetch
  clicks,            \* the clicks so far that ran a handler to a write or a fetch
  last               \* what the last step was, when it was a click on a page button
                     \* or the failure of a page fetch

vars ==
  <<conversationId, storage, usagePage, usagePageSize, usageTotal, usageItems,
    historyPage, historyPageSize, historyTotal, historyItems, viewStatsHidden, dom,
    stream, tasks, uploadItems, uploads, clicks, last>>
uploadVars == <<uploadItems, uploads>>

usageVars == <<usagePage, usagePageSize, usageTotal, usageItems>>
historyVars == <<historyPage, historyPageSize, historyTotal, historyItems>>

\* The click handlers in flight at once.
MaxTasks == 1

\* The messages sent in a run of the page.
MaxSends == 1

\* The clicks in a run of the page that run a handler to a write or a fetch.
MaxClicks == 3

DefaultUsagePageSize == 20
DefaultHistoryPageSize == 10

\* The list a controller holds.
Usage == [page |-> usagePage, pageSize |-> usagePageSize, total |-> usageTotal, items |-> usageItems]
History ==
  [page |-> historyPage, pageSize |-> historyPageSize, total |-> historyTotal,
   items |-> historyItems]
Lists == [usage |-> Usage, history |-> History]

\* Which of the two lists a handler has written before its fetch.
NoWrites == [usage |-> FALSE, history |-> FALSE]
Writes(before, after) ==
  [usage |-> after.usage # before.usage, history |-> after.history # before.history]
NoReq == [ctl |-> "none", cid |-> Null, page |-> 0, size |-> 0]
NoFrame ==
  [name |-> <<>>, vis |-> FALSE, reqs |-> <<>>, switched |-> Null, wrote |-> NoWrites,
   alone |-> FALSE]
NoErr == [kind |-> "none", message |-> <<>>]
NoTask == [kind |-> "idle", pc |-> "idle", req |-> NoReq, wrote |-> NoWrites, alone |-> FALSE]
FailResp == [ok |-> FALSE, has |-> {}, page |-> 0, page_size |-> 0, total |-> 0, items |-> <<>>]
NoLast ==
  [what |-> "none", op |-> "none", ctl |-> "none", n |-> 0, issued |-> FALSE,
   wrote |-> FALSE, alone |-> FALSE]

Max(a, b) == IF a >= b THEN a ELSE b

\* Math.max(1, Math.ceil(total / pageSize)) when total is truthy, else 1
TotalPages(total, pageSize) ==
  IF total # 0 THEN Max(1, (total + pageSize - 1) \div pageSize) ELSE 1

StatsViewActive == ~viewStatsHidden

\* renderStats: the two buttons of the usage list
RenderStats(d, u) ==
  LET currentPage == IF u.total # 0 THEN u.page ELSE 1
  IN [d EXCEPT !.statsPrev = currentPage <= 1,
               !.statsNext = currentPage >= TotalPages(u.total, u.pageSize)]

\* renderHistory: the two buttons of the history list
RenderHistory(d, h) ==
  LET currentPage == IF h.total # 0 THEN h.page ELSE 1
  IN [d EXCEPT !.historyPrev = currentPage <= 1,
               !.historyNext = currentPage >= TotalPages(h.total, h.pageSize)]

\* saveConversationId: the entry after the call
SaveConversationId(entry, id) == IF id # Null /\ Trim(id) # <<>> THEN id ELSE entry

\* loadStoredConversationId
LoadStoredConversationId(entry) == IF entry # Null /\ Trim(entry) # <<>> THEN entry ELSE Null

UsageRequest(cid, page, size) == [ctl |-> "usage", cid |-> cid, page |-> page, size |-> size]
HistoryRequest(page, size) == [ctl |-> "history", cid |-> Null, page |-> page, size |-> size]

\* loadUsagePage goes on to its fetch whatever the identity is.
ConversationAssumed(cid) == FALSE

\* Whether loadUsagePage finds no conversation (app.js line 892)
NoConversation(cid) == cid = Null

\* The list is emptied, its page left where it is.
ResetKeepsPage(u) == [u EXCEPT !.total = 0, !.items = <<>>]

\* loadUsagePage without a conversation (app.js lines 892 to 898): the list is emptied.
ResetUsage(u) == [u EXCEPT !.page = 1, !.total = 0, !.items = <<>>]

(***************************************************************************)
(* The server's answers to the page fetches.  A row of the usage list      *)
(* names the conversation and the page it was fetched for; a row of the    *)
(* history list is a conversation (one row has no conversation_id).        *)
(***************************************************************************)
ServerUsageTotal == 25
ServerHistoryTotal == 15

Fields == {"page", "page_size", "total", "items"}

UsageRows(req) ==
  IF req.page \in 1..TotalPages(ServerUsageTotal, req.size)
  THEN <<[cid |-> req.cid, page |-> req.page]>> ELSE <<>>

HistoryRows(req) ==
  IF req.page = 1 THEN <<[conversation_id |-> IdC1], [conversation_id |-> IdC2]>>
  ELSE IF req.page \in 1..TotalPages(ServerHistoryTotal, req.size)
  THEN <<[conversation_id |-> IdC2], [conversation_id |-> Null]>> ELSE <<>>

\* A failure, the page asked for, an empty list, or a body without the fields.
Responses(req) ==
  { FailResp,
    [ok |-> TRUE, has |-> Fields, page |-> req.page, page_size |-> req.size,
     total |-> IF req.ctl = "usage" THEN ServerUsageTotal ELSE ServerHistoryTotal,
     items |-> IF req.ctl = "usage" THEN UsageRows(req) ELSE HistoryRows(req)],
    [ok |-> TRUE, has |-> Fields, page |-> req.page, page_size |-> req.size,
     total |-> 0, items |-> <<>>],
    [ok |-> TRUE, has |-> {}, page |-> 0, page_size |-> 0, total |-> 0, items |-> <<>>] }

\* The list is left as it is when the page asked for is behind the page it is on.
LoadedUnlessBehind(list, req, resp) ==
  IF ~resp.ok \/ req.page < list.page THEN list
  ELSE [page |-> IF "page" \in resp.has THEN resp.page ELSE req.page,
        pageSize |-> IF "page_size" \in resp.has THEN resp.page_size ELSE list.pageSize,
        total |-> IF "total" \in resp.has THEN resp.total ELSE 0,
        items |-> IF "items" \in resp.has THEN resp.items ELSE <<>>]

\* The page is the one asked for, whatever the body says.
LoadedAsAsked(list, req, resp) ==
  IF ~resp.ok THEN list
  ELSE [page |-> req.page,
        pageSize |-> IF "page_size" \in resp.has THEN resp.page_size ELSE list.pageSize,
        total |-> IF "total" \in resp.has THEN resp.total ELSE 0,
        items |-> IF "items" \in resp.has THEN resp.items ELSE <<>>]

\* loadUsagePage and loadHistoryPage after the fetch (app.js lines 907 to 913 and
\* 854 to 860): the list once the response is in; a failure throws before any write.
Loaded(list, req, resp) ==
  IF ~resp.ok THEN list
  ELSE [page |-> IF "page" \in resp.has THEN resp.page ELSE req.page,
        pageSize |-> IF "page_size" \in resp.has THEN resp.page_size ELSE list.pageSize,
        total |-> IF "total" \in resp.has THEN resp.total ELSE 0,
        items |-> IF "items" \in resp.has THEN resp.items ELSE <<>>]

SetUsage(u) ==
  /\ usagePage' = u.page
  /\ usagePageSize' = u.pageSize
  /\ usageTotal' = u.total
  /\ usageItems' = u.items

SetHistory(h) ==
  /\ historyPage' = h.page
  /\ historyPageSize' = h.pageSize
  /\ historyTotal' = h.total
  /\ historyItems' = h.items

\* What a failed fetch leaves to look at: whether the operation that asked for the fetch
\* had written the controller's list before it, and whether nothing else ran since.
Failure(op, req, wrote, alone) ==
  [what |-> "fail", op |-> op, ctl |-> req.ctl, n |-> req.page, issued |-> TRUE,
   wrote |-> wrote[req.ctl], alone |-> alone]

\* What a fetch that has delivered leaves to look at: the page asked for and the response.
Delivered(op, req, resp) ==
  [what |-> "ok", op |-> op, ctl |-> req.ctl, n |-> req.page, issued |-> TRUE,
   wrote |-> FALSE, alone |-> FALSE, resp |-> resp]

Observed(op, req, resp, wrote, alone) ==
  IF resp.ok THEN NoLast ELSE Failure(op, req, wrote, alone)

\* The same with the response kept when the fetch has delivered.
ObservedWhole(op, req, resp, wrote, alone) ==
  IF resp.ok THEN Delivered(op, req, resp) ELSE Failure(op, req, wrote, alone)

\* The same again, with what the step before has left to look at.
ObservedAfter(op, req, resp, wrote, alone) ==
  IF resp.ok
  THEN [what |-> "ok", op |-> op, ctl |-> req.ctl, n |-> req.page, issued |-> TRUE,
        wrote |-> FALSE, alone |-> FALSE, resp |-> resp,
        prev |-> [what |-> last.what, op |-> last.op, ctl |-> last.ctl, n |-> last.n]]
  ELSE Failure(op, req, wrote, alone)

\* What a step that settles a fetch leaves to look at: a failure alone, or also the
\* response, or also the step before.
Seen(mode, op, req, resp, wrote, alone) ==
  IF mode = "after" THEN ObservedAfter(op, req, resp, wrote, alone)
  ELSE IF mode = "whole" THEN ObservedWhole(op, req, resp, wrote, alone)
  ELSE Observed(op, req, resp, wrote, alone)

\* The answers of a server that may clamp the page, use a page size of its own, or
\* leave page and page_size out of the body.
ServerPageSize == 5

Echoes(req) ==
  LET total == IF req.ctl = "usage" THEN ServerUsageTotal ELSE ServerHistoryTotal
      Rows(r) == IF r.ctl = "usage" THEN UsageRows(r) ELSE HistoryRows(r)
  IN Responses(req) \cup
     { [ok |-> TRUE, has |-> Fields, page |-> 1, page_size |-> req.size,
        total |-> total, items |-> Rows([req EXCEPT !.page = 1])],
       [ok |-> TRUE, has |-> Fields, page |-> req.page, page_size |-> ServerPageSize,
        total |-> total, items |-> Rows([req EXCEPT !.size = ServerPageSize])],
       [ok |-> TRUE, has |-> {"total", "items"}, page |-> 0, page_size |-> 0,
        total |-> total, items |-> Rows(req)] }

\* Something else has run: no handler in flight is alone any more.
Disturbed(ts) == [i \in DOMAIN ts |-> [ts[i] EXCEPT !.alone = FALSE]]
DisturbedStream(s) == [s EXCEPT !.cur.alone = FALSE]

(***************************************************************************)
(* runAgentStream.  The loop runs on a record e of everything it reads and *)
(* writes without giving up control: conversationId, storage, the usage    *)
(* list, the buttons, and the call's own state s.                          *)
(***************************************************************************)
Env ==
  [conversationId |-> conversationId, storage |-> storage, usage |-> Usage,
   history |-> History, dom |-> dom, s |-> stream]

\* Both fetches of the refresh are issued at once.
RefreshTogether(e, before) ==
  LET u == UsageRequest(e.conversationId, e.usage.page, e.usage.pageSize)
      h == HistoryRequest(e.history.page, e.history.pageSize)
  IN [e EXCEPT !.s.pc = "usage", !.s.req = u, !.s.cur.reqs = <<u, h>>,
               !.s.cur.wrote = Writes(before, e)]

\* The refresh of a meta, stats or done frame while the view is visible, up to its first
\* fetch (app.js lines 1030 to 1036, 1047 to 1053, 1063 to 1069): loadUsagePage(usagePage)
\* empties the list and returns when there is no conversation, and
\* loadHistoryPage(historyPage) follows at once.
Refresh(e, before) ==
  IF NoConversation(e.conversationId)
  THEN LET req == HistoryRequest(e.history.page, e.history.pageSize)
           u == ResetUsage(e.usage)
       IN [e EXCEPT !.usage = u, !.dom = RenderStats(@, u),
                    !.s.pc = "history", !.s.req = req,
                    !.s.cur.reqs = Append(@, req),
                    !.s.cur.wrote = Writes(before, [usage |-> u, history |-> e.history])]
  ELSE LET req == UsageRequest(e.conversationId, e.usage.page, e.usage.pageSize)
       IN [e EXCEPT !.s.pc = "usage", !.s.req = req, !.s.cur.reqs = Append(@, req),
                    !.s.cur.wrote = Writes(before, e)]

\* A meta frame's writes (app.js lines 1026 to 1028)
MetaWrites(e, id) ==
  [e EXCEPT !.conversationId = id, !.storage = SaveConversationId(@, id), !.usage.page = 1]

\* The text of the frame is put before what is there.
OnDeltaFront(e, delta) == [e EXCEPT !.s.acc = delta \o @]

\* onDelta(data.delta): acc += delta (app.js lines 1044 and 1243)
OnDelta(e, delta) == [e EXCEPT !.s.acc = @ \o delta]

\* The frame is passed over.
ErrorIgnored(e, data) == e

\* The error is thrown and the text delivered so far is taken back.
ErrorRetracts(e, data) ==
  [e EXCEPT !.s.pc = "threw", !.s.acc = <<>>,
            !.s.err = [kind |-> "frame", message |-> StreamErrorText]]

\* An error frame (app.js line 1059)
ErrorThrown(e, data) ==
  LET message == IF Truthy(data, KeyMessage) # Null
                 THEN Truthy(data, KeyMessage) ELSE StreamErrorText
  IN [e EXCEPT !.s.pc = "threw", !.s.err = [kind |-> "frame", message |-> message]]

\* The identity is left as it is.
DoneNoWrite(e, id) == e

\* The identity is what the frame holds, a conversation_id or none.
DoneWritesAny(e, id) == [e EXCEPT !.conversationId = id]

\* A done frame's write (app.js line 1061)
DoneIdentity(e, id) == IF id # Null THEN [e EXCEPT !.conversationId = id] ELSE e

\* The loop goes on to the next read.
DoneContinues(e) == [e EXCEPT !.s.pc = "read"]

\* A done frame's end (app.js line 1076)
DoneReturns(e) == [e EXCEPT !.s.pc = "returned"]

\* Whether a frame is handled as a stats frame (app.js line 1045)
IsStats(eventName, data) == eventName = NameStats /\ data.kind # "null"

\* The lists are refreshed whether the view is visible or not.
AlwaysRefreshes == TRUE

\* Whether a stats frame refreshes the lists (app.js line 1046)
StatsRefreshes == StatsViewActive

\* The frame is noted as the one in hand.
Noted(e, eventName, data) ==
  [e EXCEPT !.s.frames = Append(@, [name |-> eventName, data |-> data]),
            !.s.cur = [name |-> eventName, vis |-> StatsViewActive, reqs |-> <<>>,
                       switched |-> Null, wrote |-> NoWrites, alone |-> TRUE]]

\* The frame in hand is dealt with.
Handled(e) == [e EXCEPT !.s.cur.reqs = <<>>, !.s.cur.wrote = NoWrites, !.s.cur.alone = FALSE]

RECURSIVE RunLoop(_)

\* The if-chain on eventName (app.js lines 1025 to 1077).
Dispatch(e, eventName, data) ==
  LET id == Truthy(data, KeyConversationId)
      e1 == Noted(e, eventName, data)
  IN IF eventName = NameMeta /\ id # Null
     THEN LET e2 == MetaWrites(e1, id)
          IN IF StatsViewActive THEN Refresh(e2, e)
             ELSE RunLoop(Handled([e2 EXCEPT !.dom = RenderStats(@, e2.usage)]))
     ELSE IF eventName = NameDelta /\ HasString(data, KeyDelta)
     THEN RunLoop(Handled(OnDelta(e1, data.val)))
     ELSE IF IsStats(eventName, data)
     THEN IF StatsRefreshes THEN Refresh(e1, e) ELSE RunLoop(Handled(e1))
     ELSE IF eventName = NameError
     THEN Handled(ErrorThrown(e1, data))
     ELSE IF eventName = NameDone
     THEN LET e2 == DoneIdentity(e1, id)
          IN IF StatsViewActive THEN Refresh(e2, e)
             ELSE DoneReturns(Handled([e2 EXCEPT !.dom = RenderStats(@, e2.usage)]))
     ELSE RunLoop(Handled(e1))

\* No frame-block is dropped.
DroppedNever(dataJson) == FALSE

\* Only a frame-block without data text is dropped: what JSON.parse makes of the text
\* is not looked at.
DroppedIfEmpty(dataJson) == dataJson = <<>>

\* Whether a frame-block is dropped before the if-chain (app.js lines 1016 to 1023)
Dropped(dataJson) == dataJson = <<>> \/ JSONParse(dataJson).kind = "error"

\* The inner while loop (app.js lines 1005 to 1078): frame-blocks are taken off the
\* buffer until none is complete, a handler awaits a fetch, or the call ends.
RunLoop(e) ==
  LET sepIndex == IndexOfSep(e.s.buffer)
  IN IF sepIndex = -1 THEN [e EXCEPT !.s.pc = "read"]
     ELSE LET chunk == SliceTo(e.s.buffer, sepIndex)
              blk == ParseBlock(chunk)
              e1 == [e EXCEPT !.s.buffer = SliceFrom(e.s.buffer, sepIndex + 2)]
          IN IF Dropped(blk.dataJson) THEN RunLoop(e1)
             ELSE Dispatch(e1, blk.eventName, JSONParse(blk.dataJson))

\* decoder.decode(value, { stream: true }) and buffer += (app.js line 1002)
Receive(s, value) ==
  LET r == Decode(s.dec, value)
  IN [s EXCEPT !.buffer = @ \o r.text, !.dec = r.st,
               !.midChar = @ \/ r.st.needed # 0]

\* The end of the call with the controls left as they are.
FinishStaysBusy(s) ==
  IF s.pc \in {"returned", "threw"}
  THEN [s EXCEPT !.pc = "idle", !.outcome = s.pc,
                 !.buffer = <<>>, !.dec = DecoderInit, !.req = NoReq]
  ELSE s

\* The end of the call and of the submit handler around it (app.js lines 1247 to 1252):
\* the locals are gone and the controls are enabled again.
Finish(s) ==
  IF s.pc \in {"returned", "threw"}
  THEN [s EXCEPT !.pc = "idle", !.outcome = s.pc, !.busy = FALSE,
                 !.buffer = <<>>, !.dec = DecoderInit, !.req = NoReq]
  ELSE s

\* The step's writes.
Commit(e) ==
  /\ conversationId' = e.conversationId
  /\ storage' = e.storage
  /\ SetUsage(e.usage)
  /\ SetHistory(e.history)
  /\ dom' = e.dom
  /\ stream' = Finish(e.s)

(***************************************************************************)
(* The steps of the submit handler and of runAgentStream.                  *)
(***************************************************************************)
Messages == {<<>>, MsgBlank, MsgHello}

NoResp == [net |-> FALSE, ok |-> FALSE, ct |-> Null, body |-> FALSE, sid |-> 0]

IdleStream ==
  [pc |-> "idle", busy |-> FALSE, sid |-> 0, pos |-> 0, dec |-> DecoderInit,
   buffer |-> <<>>, acc |-> <<>>, payload |-> [message |-> <<>>, conversation_id |-> Null],
   req |-> NoReq, frames |-> <<>>, cur |-> NoFrame, outcome |-> "none", err |-> NoErr,
   midChar |-> FALSE, sends |-> 0, resp |-> NoResp]

\* The payload has no conversation_id, whatever the identity is.
RunAgentStreamAnew(s, message) ==
  [s EXCEPT !.pc = "open",
            !.payload = [message |-> message, conversation_id |-> Null]]

\* runAgentStream up to its fetch (app.js lines 966 to 974): the payload is built from
\* the message as it is given and from the identity, and the request is sent.
RunAgentStream(s, message) ==
  [s EXCEPT !.pc = "open",
            !.payload = [message |-> message, conversation_id |-> conversationId]]

\* The submit handler up to the fetch of runAgentStream (app.js lines 1230 to 1242 and
\* 966 to 974).  The form's controls are disabled while a message is in flight.  It
\* runs for at most n messages.
SubmitUpTo(n) ==
  /\ ~stream.busy
  /\ stream.sends < n
  /\ \E input \in Messages :
       LET text == Trim(input)
       IN IF text = <<>> THEN UNCHANGED stream
          ELSE stream' = RunAgentStream([IdleStream EXCEPT !.busy = TRUE,
                                                           !.sends = stream.sends + 1], text)
  /\ last' = NoLast
  /\ UNCHANGED <<conversationId, storage, usageVars, historyVars, viewStatsHidden, dom, tasks,
                 clicks>>
  /\ UNCHANGED uploadVars

Submit == SubmitUpTo(MaxSends)

\* runAgentStream called with a message as it is, not through the form.
DirectSend ==
  /\ stream.pc = "idle"
  /\ stream.sends < MaxSends
  /\ \E message \in Messages :
       stream' = RunAgentStream([IdleStream EXCEPT !.sends = stream.sends + 1], message)
  /\ last' = NoLast
  /\ UNCHANGED <<conversationId, storage, usageVars, historyVars, viewStatsHidden, dom, tasks,
                 clicks>>
  /\ UNCHANGED uploadVars

\* The response to POST /api/agent/stream: the fetch fails, or a status, a content-type
\* header (Null when there is none), a body or none, and the stream the body carries.
OpenResponses(sids) ==
  {NoResp,
   [net |-> TRUE, ok |-> FALSE, ct |-> CtJson, body |-> TRUE, sid |-> Min(sids)],
   [net |-> TRUE, ok |-> FALSE, ct |-> CtEventStream, body |-> TRUE, sid |-> Min(sids)],
   [net |-> TRUE, ok |-> TRUE, ct |-> CtJson, body |-> TRUE, sid |-> Min(sids)],
   [net |-> TRUE, ok |-> TRUE, ct |-> Null, body |-> TRUE, sid |-> Min(sids)],
   [net |-> TRUE, ok |-> TRUE, ct |-> CtEventStream, body |-> FALSE, sid |-> 0]}
  \cup [net : {TRUE}, ok : {TRUE}, ct : {CtEventStream, CtEventStreamCharset},
        body : {TRUE}, sid : sids]

\* Whether the response is taken for a stream (app.js lines 976 and 990)
IsEventStream(r) ==
  LET contentType == ToLowerCase(IF r.ct = Null THEN <<>> ELSE r.ct)
  IN Includes(contentType, EventStreamType) /\ r.body

\* The content type is not looked at.
OpenedUnchecked(s, r) ==
  IF ~r.net THEN [s EXCEPT !.pc = "threw", !.err = [kind |-> "network", message |-> <<>>]]
  ELSE IF ~r.ok THEN [s EXCEPT !.pc = "threw", !.err = [kind |-> "http", message |-> <<>>]]
  ELSE IF ~r.body
  THEN [s EXCEPT !.pc = "threw", !.err = [kind |-> "notstream", message |-> <<>>]]
  ELSE [s EXCEPT !.pc = "read", !.sid = r.sid, !.pos = 0, !.dec = DecoderInit,
                 !.buffer = <<>>]

\* runAgentStream from the response to the first read (app.js lines 976 to 996)
Opened(s, r) ==
  IF ~r.net THEN [s EXCEPT !.pc = "threw", !.err = [kind |-> "network", message |-> <<>>]]
  ELSE IF ~r.ok THEN [s EXCEPT !.pc = "threw", !.err = [kind |-> "http", message |-> <<>>]]
  ELSE IF ~IsEventStream(r)
  THEN [s EXCEPT !.pc = "threw", !.err = [kind |-> "notstream", message |-> <<>>]]
  ELSE [s EXCEPT !.pc = "read", !.sid = r.sid, !.pos = 0, !.dec = DecoderInit,
                 !.buffer = <<>>]

StreamResponse(sids) ==
  /\ stream.pc = "open"
  /\ \E r \in OpenResponses(sids) : stream' = Finish(Opened([stream EXCEPT !.resp = r], r))
  /\ last' = NoLast
  /\ UNCHANGED <<conversationId, storage, usageVars, historyVars, viewStatsHidden, dom, tasks,
                 clicks>>
  /\ UNCHANGED uploadVars

\* reader.read() gives the bytes up to position m, and the loop runs on them.
Deliver(m) ==
  LET value == SubSeq(Bytes(stream.sid), stream.pos + 1, m)
      e == RunLoop([Env EXCEPT !.s = [Receive(stream, value) EXCEPT !.pos = m]])
  IN /\ Commit(e)
     /\ tasks' = Disturbed(tasks)
     /\ last' = NoLast
     /\ UNCHANGED <<viewStatsHidden, clicks>>
     /\ UNCHANGED uploadVars

\* A read that gives one or more whole pieces of the server.
ReadChunk ==
  /\ stream.pc = "read"
  /\ \E m \in Marks(Scripts[stream.sid], 0) : m > stream.pos /\ Deliver(m)

\* A read that gives any number of the bytes left.
ReadBytes ==
  /\ stream.pc = "read"
  /\ \E m \in (stream.pos + 1)..Len(Bytes(stream.sid)) : Deliver(m)

\* At the end of the body the call goes on waiting.
ExhaustedWaits(s) == s

\* At the end of the body what is left in the buffer is taken as a last frame-block.
ExhaustedFlushes(s) ==
  LET blk == ParseBlock(s.buffer)
  IN IF s.buffer = <<>> \/ Dropped(blk.dataJson) THEN [s EXCEPT !.pc = "returned"]
     ELSE [s EXCEPT !.pc = "returned",
                    !.frames = Append(@, [name |-> blk.eventName,
                                          data |-> JSONParse(blk.dataJson)])]

\* A read at the end of the body: done is true, the loop breaks and the call returns
\* (app.js lines 999 to 1000 and 1080).
Exhausted(s) == [s EXCEPT !.pc = "returned"]

ReadEnd ==
  /\ stream.pc = "read"
  /\ stream.pos = Len(Bytes(stream.sid))
  /\ stream' = Finish(Exhausted(stream))
  /\ last' = NoLast
  /\ UNCHANGED <<conversationId, storage, usageVars, historyVars, viewStatsHidden, dom, tasks,
                 clicks>>
  /\ UNCHANGED uploadVars

\* A read that fails (the connection is lost or aborted): the call throws.
ReadError ==
  /\ stream.pc = "read"
  /\ stream' = Finish([stream EXCEPT !.pc = "threw",
                                     !.err = [kind |-> "read", message |-> <<>>]])
  /\ last' = NoLast
  /\ UNCHANGED <<conversationId, storage, usageVars, historyVars, viewStatsHidden, dom, tasks,
                 clicks>>
  /\ UNCHANGED uploadVars

\* A page fetch that fails ends the call.
Uncaught(s, resp) ==
  IF resp.ok THEN s ELSE [s EXCEPT !.pc = "threw", !.err = [kind |-> "fetch", message |-> <<>>]]

\* The try blocks around the page loads of a frame (app.js lines 1030 to 1039, 1047 to
\* 1056, 1063 to 1072): the catch takes the failure and the call goes on.
Caught(s, resp) == s

\* The usage fetch of a frame's refresh settles; loadHistoryPage(historyPage) follows
\* (app.js lines 1030 to 1036, and the same for stats and done).
StreamUsageSettledFrom(resps, mode) ==
  /\ stream.pc = "usage"
  /\ \E resp \in resps :
       LET u == Loaded(Usage, stream.req, resp)
           req == HistoryRequest(historyPage, historyPageSize)
       IN /\ SetUsage(u)
          /\ dom' = RenderStats(dom, u)
          /\ stream' = IF Caught(stream, resp).pc = "threw"
                       THEN Finish(Caught(stream, resp))
                       ELSE [stream EXCEPT !.pc = "history", !.req = req,
                                           !.cur.reqs = Append(@, req)]
          /\ last' = Seen(mode, "frame", stream.req, resp, stream.cur.wrote, stream.cur.alone)
  /\ tasks' = Disturbed(tasks)
  /\ UNCHANGED <<conversationId, storage, historyVars, viewStatsHidden, clicks>>
  /\ UNCHANGED uploadVars

StreamUsageSettled == StreamUsageSettledFrom(Responses(stream.req), "failure")

\* The history fetch of a frame's refresh settles: a done frame returns, any other
\* frame goes on with the loop (app.js lines 1036 to 1039 and 1076).
StreamHistorySettledFrom(resps, mode) ==
  /\ stream.pc = "history"
  /\ \E resp \in resps :
       LET h == Loaded(History, stream.req, resp)
           e0 == Handled([Env EXCEPT !.history = h, !.dom = RenderHistory(@, h),
                                     !.s.req = NoReq])
           e == IF Caught(stream, resp).pc = "threw"
                THEN [e0 EXCEPT !.s = Caught(e0.s, resp)]
                ELSE IF stream.cur.name = NameDone
                THEN DoneReturns(e0) ELSE RunLoop(e0)
       IN /\ Commit(e)
          /\ last' = Seen(mode, "frame", stream.req, resp, stream.cur.wrote, stream.cur.alone)
  /\ tasks' = Disturbed(tasks)
  /\ UNCHANGED <<viewStatsHidden, clicks>>
  /\ UNCHANGED uploadVars

StreamHistorySettled == StreamHistorySettledFrom(Responses(stream.req), "failure")

(***************************************************************************)
(* The click handlers of the sidebar, of the page buttons and of the rows  *)
(* of the history list.                                                    *)
(***************************************************************************)
Buttons == {"statsPrev", "statsNext", "historyPrev", "historyNext"}

FreeSlots == {i \in DOMAIN tasks : tasks[i] = NoTask}

\* A click that runs a handler to a write or a fetch.
Clicked ==
  /\ clicks < MaxClicks
  /\ clicks' = clicks + 1

\* A handler starts to await a fetch.
StartTask(t) ==
  /\ FreeSlots # {}
  /\ tasks' = [Disturbed(tasks) EXCEPT ![Min(FreeSlots)] = t]

\* menuChatEl and menuEnvEl: setActiveView('chat'), setActiveView('env')
\* (app.js lines 1100 and 1121 to 1124)
ClickView ==
  /\ Clicked
  /\ viewStatsHidden' = TRUE
  /\ last' = NoLast
  /\ UNCHANGED <<conversationId, storage, usageVars, historyVars, dom, stream, tasks>>
  /\ UNCHANGED uploadVars

\* The answers to GET /api/knowledge/uploads: a failure, a list of one file, a list of
\* two, a body without items.
UploadResponses ==
  { [ok |-> FALSE, has |-> {}, items |-> <<>>],
    [ok |-> TRUE, has |-> {"items"}, items |-> <<[stored_name |-> <<97>>]>>],
    [ok |-> TRUE, has |-> {"items"}, items |-> <<[stored_name |-> <<97>>], [stored_name |-> <<98>>]>>],
    [ok |-> TRUE, has |-> {}, items |-> <<>>] }

\* loadUploads after its fetch (app.js lines 836 to 842): the list of the body, and no
\* list when the fetch has failed.
LoadedUploads(items, resp) ==
  IF resp.ok /\ "items" \in resp.has THEN resp.items ELSE <<>>

\* menuKnowledgeEl: setActiveView('knowledge'), renderKnowledge() and loadUploads() up to
\* its fetch (app.js lines 1101 to 1105 and 834 to 836)
MenuKnowledge ==
  /\ Clicked
  /\ viewStatsHidden' = TRUE
  /\ uploads' = uploads + 1
  /\ last' = NoLast
  /\ UNCHANGED <<conversationId, storage, usageVars, historyVars, dom, stream, tasks,
                 uploadItems>>

\* The fetch of a call of loadUploads settles (app.js lines 836 to 844).
UploadsSettled ==
  /\ uploads > 0
  /\ uploads' = uploads - 1
  /\ \E resp \in UploadResponses :
       /\ uploadItems' = LoadedUploads(uploadItems, resp)
       /\ last' = IF resp.ok THEN NoLast
                  ELSE [what |-> "fail", op |-> "uploads", ctl |-> "uploads", n |-> 0,
                        issued |-> TRUE, wrote |-> FALSE, alone |-> FALSE]
  /\ UNCHANGED <<conversationId, storage, usageVars, historyVars, viewStatsHidden, dom, stream,
                 tasks, clicks>>

\* menuStatsEl up to its first fetch (app.js lines 1106 to 1120 and 891 to 903)
MenuStats ==
  LET h == [History EXCEPT !.page = 1] IN
  /\ Clicked
  /\ viewStatsHidden' = FALSE
  /\ IF NoConversation(conversationId)
     THEN LET u == ResetUsage(Usage)
              req == HistoryRequest(1, historyPageSize)
          IN /\ SetUsage(u)
             /\ dom' = RenderStats(dom, u)
             /\ StartTask([kind |-> "menu", pc |-> "history", req |-> req,
                           wrote |-> Writes(Lists, [usage |-> u, history |-> h]),
                           alone |-> TRUE])
     ELSE LET u == [Usage EXCEPT !.page = 1]
              req == UsageRequest(conversationId, 1, usagePageSize)
          IN /\ SetUsage(u)
             /\ dom' = dom
             /\ StartTask([kind |-> "menu", pc |-> "usage", req |-> req,
                           wrote |-> Writes(Lists, [usage |-> u, history |-> h]),
                           alone |-> TRUE])
  /\ SetHistory(h)
  /\ stream' = DisturbedStream(stream)
  /\ last' = NoLast
  /\ UNCHANGED <<conversationId, storage>>
  /\ UNCHANGED uploadVars

\* The guards of the page buttons (app.js lines 1186, 1195 to 1196, 1205, 1214 to 1215)
NoGuard(page) == FALSE
PrevRejected(page) == page <= 1
NextRejected(page, total, pageSize) == page >= TotalPages(total, pageSize)

\* A click on a page button: where it asks to go, and whether its handler returns
\* at once.
Target(b, l) == IF b \in {"statsPrev", "historyPrev"} THEN l.page - 1 ELSE l.page + 1
Rejected(b, l) ==
  IF b \in {"statsPrev", "historyPrev"} THEN PrevRejected(l.page)
  ELSE NextRejected(l.page, l.total, l.pageSize)

Nav(b, ctl, l, issued) ==
  [what |-> "nav", op |-> b, ctl |-> ctl, n |-> Target(b, l), issued |-> issued,
   wrote |-> FALSE, alone |-> TRUE]

\* A click on one of the four page buttons of the visible view.  A button that
\* renderStats or renderHistory has disabled delivers no click (app.js lines 711 to 712
\* and 766 to 767); else the handler runs up to its fetch (app.js lines 1185 to 1221).
NavClick(b) ==
  LET ctl == IF b \in {"statsPrev", "statsNext"} THEN "usage" ELSE "history"
      l == Lists[ctl]
      n == Target(b, l)
  IN /\ StatsViewActive
     /\ IF dom[b] \/ Rejected(b, l)
        THEN /\ last' = Nav(b, ctl, l, FALSE)
             /\ UNCHANGED <<usageVars, historyVars, dom, stream, tasks, clicks>>
        ELSE IF ctl = "usage" /\ NoConversation(conversationId)
        THEN /\ Clicked
             /\ SetUsage(ResetUsage(Usage))
             /\ dom' = RenderStats(dom, ResetUsage(Usage))
             /\ last' = Nav(b, ctl, l, FALSE)
             /\ stream' = DisturbedStream(stream)
             /\ tasks' = Disturbed(tasks)
             /\ UNCHANGED historyVars
        ELSE /\ Clicked
             /\ StartTask([kind |-> "nav", pc |-> ctl,
                           req |-> IF ctl = "usage"
                                   THEN UsageRequest(conversationId, n, usagePageSize)
                                   ELSE HistoryRequest(n, historyPageSize),
                           wrote |-> NoWrites, alone |-> TRUE])
             /\ last' = Nav(b, ctl, l, TRUE)
             /\ UNCHANGED <<usageVars, historyVars, dom, stream>>
     /\ UNCHANGED <<conversationId, storage, viewStatsHidden>>
     /\ UNCHANGED uploadVars

\* A click on a row of the history list, up to its fetch (app.js lines 744 to 750)
RowClick(k) ==
  LET id == historyItems[k].conversation_id
  IN /\ StatsViewActive
     /\ IF id = Null \/ id = <<>>
        THEN UNCHANGED <<conversationId, storage, usageVars, stream, tasks, clicks>>
        ELSE /\ Clicked
             /\ conversationId' = id
             /\ storage' = SaveConversationId(storage, id)
             /\ SetUsage([Usage EXCEPT !.page = 1])
             /\ StartTask([kind |-> "row", pc |-> "usage",
                           req |-> UsageRequest(id, 1, usagePageSize),
                           wrote |-> [NoWrites EXCEPT !.usage = usagePage # 1],
                           alone |-> TRUE])
             /\ stream' = [DisturbedStream(stream) EXCEPT
                             !.cur.switched = IF stream.pc \in {"usage", "history"}
                                              THEN id ELSE @]
     /\ last' = NoLast
     /\ UNCHANGED <<historyVars, viewStatsHidden, dom>>
     /\ UNCHANGED uploadVars

\* The usage fetch of a click handler settles (app.js lines 905 to 914), and the
\* handler goes on: menuStatsEl to loadHistoryPage(historyPage) (lines 1111 to 1119),
\* a row to renderHistory (lines 751 to 754), a page button to its end.
TaskUsageSettledFrom(i, resps, mode) ==
  LET t == tasks[i]
  IN /\ t.pc = "usage"
     /\ \E resp \in resps :
          LET u == Loaded(Usage, t.req, resp)
              rendered == resp.ok \/ t.kind \in {"menu", "row"}
              d1 == IF rendered THEN RenderStats(dom, u) ELSE dom
          IN /\ SetUsage(u)
             /\ dom' = IF t.kind = "row" THEN RenderHistory(d1, History) ELSE d1
             /\ last' = Seen(mode, t.kind, t.req, resp, t.wrote, t.alone)
     /\ tasks' = [Disturbed(tasks) EXCEPT
                    ![i] = IF t.kind = "menu"
                           THEN [t EXCEPT !.pc = "history",
                                          !.req = HistoryRequest(historyPage, historyPageSize)]
                           ELSE NoTask]
     /\ stream' = DisturbedStream(stream)
     /\ UNCHANGED <<conversationId, storage, historyVars, viewStatsHidden, clicks>>
     /\ UNCHANGED uploadVars

TaskUsageSettled(i) == TaskUsageSettledFrom(i, Responses(tasks[i].req), "failure")

\* The history fetch of a click handler settles (app.js lines 853 to 861).
TaskHistorySettledFrom(i, resps, mode) ==
  LET t == tasks[i]
  IN /\ t.pc = "history"
     /\ \E resp \in resps :
          LET h == Loaded(History, t.req, resp)
              rendered == resp.ok \/ t.kind = "menu"
          IN /\ SetHistory(h)
             /\ dom' = IF rendered THEN RenderHistory(dom, h) ELSE dom
             /\ last' = Seen(mode, t.kind, t.req, resp, t.wrote, t.alone)
     /\ tasks' = [Disturbed(tasks) EXCEPT ![i] = NoTask]
     /\ stream' = DisturbedStream(stream)
     /\ UNCHANGED <<conversationId, storage, usageVars, viewStatsHidden, clicks>>
     /\ UNCHANGED uploadVars

TaskHistorySettled(i) == TaskHistorySettledFrom(i, Responses(tasks[i].req), "failure")

(***************************************************************************)
(* The page after its script has run (app.js lines 586 to 598 and 1088 to  *)
(* 1098), and its steps.                                                   *)
(***************************************************************************)
\* entry is what localStorage holds, hidden whether the stats view is hidden, disabled
\* the flag of the two history buttons, which renderHistory has not set yet.
InitWith(entry, hidden, disabled) ==
  /\ conversationId = LoadStoredConversationId(entry)
  /\ storage = entry
  /\ usagePage = 1
  /\ usagePageSize = DefaultUsagePageSize
  /\ usageTotal = 0
  /\ usageItems = <<>>
  /\ historyPage = 1
  /\ historyPageSize = DefaultHistoryPageSize
  /\ historyTotal = 0
  /\ historyItems = <<>>
  /\ viewStatsHidden = hidden
  /\ dom = [statsPrev |-> TRUE, statsNext |-> TRUE,
            historyPrev |-> disabled, historyNext |-> disabled]
  /\ stream = IdleStream
  /\ tasks = [i \in 1..MaxTasks |-> NoTask]
  /\ uploadItems = <<>>
  /\ uploads = 0
  /\ clicks = 0
  /\ last = NoLast

\* The streams of the page's runs: one with a stats, a meta and a done frame, one that
\* ends after a meta frame.
MainSids == {2, 7}

\* The page as loaded, with or without a stored conversation, the history buttons as
\* the markup leaves them.

Init == \E entry \in {Null, IdC1} : InitWith(entry, TRUE, FALSE)

Next ==
  \/ Submit
  \/ StreamResponse(MainSids)
  \/ ReadChunk
  \/ ReadEnd
  \/ ReadError
  \/ StreamUsageSettled
  \/ StreamHistorySettled
  \/ ClickView
  \/ MenuStats
  \/ \E b \in Buttons : NavClick(b)
  \/ \E k \in DOMAIN historyItems : RowClick(k)
  \/ \E i \in DOMAIN tasks : TaskUsageSettled(i)
  \/ \E i \in DOMAIN tasks : TaskHistorySettled(i)

Spec == Init /\ [][Next]_vars

(***************************************************************************)
(* The stream alone, its bytes cut at every place.  It starts with no       *)
(* conversation and empty lists, the stats view hidden or opened (the      *)
(* state after a click on the stats menu whose history fetch has failed).  *)
(***************************************************************************)
InitChunks == \E hidden \in BOOLEAN : InitWith(Null, hidden, TRUE)

SubmitFirst == Submit

NextChunks ==
  \/ SubmitFirst
  \/ StreamResponse(DOMAIN Scripts)
  \/ ReadBytes
  \/ ReadEnd
  \/ StreamUsageSettled
  \/ StreamHistorySettled

SpecChunks == InitChunks /\ [][NextChunks]_vars

(***************************************************************************)
(* runAgentStream called through the form or on its own with any message,  *)
(* with or without a stored conversation, every stream in the chunks the   *)
(* server wrote.                                                           *)
(***************************************************************************)
SendSids == DOMAIN Scripts

InitSend == \E entry \in {Null, IdC1}, hidden \in BOOLEAN : InitWith(entry, hidden, TRUE)

SubmitForm == Submit

NextSend ==
  \/ SubmitForm
  \/ DirectSend
  \/ StreamResponse(SendSids)
  \/ ReadChunk
  \/ ReadEnd
  \/ StreamUsageSettled
  \/ StreamHistorySettled

SpecSend == InitSend /\ [][NextSend]_vars

(***************************************************************************)
(* The two lists alone, with a server that may answer with another page or *)
(* page size than it was asked for.  The page starts with a stored         *)
(* conversation and the stats view opened (the state after a click on the  *)
(* stats menu whose fetches have failed).                                  *)
(***************************************************************************)
InitFetch == InitWith(IdC1, FALSE, TRUE)

UsageFetched(i) == TaskUsageSettledFrom(i, Echoes(tasks[i].req), "whole")
HistoryFetched(i) == TaskHistorySettledFrom(i, Echoes(tasks[i].req), "whole")

NextFetch ==
  \/ MenuStats
  \/ \E b \in Buttons : NavClick(b)
  \/ \E k \in DOMAIN historyItems : RowClick(k)
  \/ \E i \in DOMAIN tasks : UsageFetched(i)
  \/ \E i \in DOMAIN tasks : HistoryFetched(i)

SpecFetch == InitFetch /\ [][NextFetch]_vars

(***************************************************************************)
(* One message after another through the form, every stream in the chunks  *)
(* the server wrote.                                                       *)
(***************************************************************************)
MaxTurns == 2

SubmitNext == SubmitUpTo(MaxTurns)

NextTurns ==
  \/ SubmitNext
  \/ StreamResponse(DOMAIN Scripts)
  \/ ReadChunk
  \/ ReadEnd
  \/ ReadError
  \/ StreamUsageSettled
  \/ StreamHistorySettled

SpecTurns == InitSend /\ [][NextTurns]_vars

(***************************************************************************)
(* A stream whose frames refresh the lists while the page buttons are      *)
(* clicked.  The page starts with a stored conversation and the stats view *)
(* opened.                                                                 *)
(***************************************************************************)
RaceSids == {2}

SubmitOnce == Submit
StreamUsageRaced == StreamUsageSettledFrom(Responses(stream.req), "after")
StreamHistoryRaced == StreamHistorySettledFrom(Responses(stream.req), "after")
UsageRaced(i) == TaskUsageSettledFrom(i, Responses(tasks[i].req), "after")
HistoryRaced(i) == TaskHistorySettledFrom(i, Responses(tasks[i].req), "after")

NextRace ==
  \/ SubmitOnce
  \/ StreamResponse(RaceSids)
  \/ ReadChunk
  \/ StreamUsageRaced
  \/ StreamHistoryRaced
  \/ \E b \in Buttons : NavClick(b)
  \/ \E i \in DOMAIN tasks : UsageRaced(i)
  \/ \E i \in DOMAIN tasks : HistoryRaced(i)

SpecRace == InitFetch /\ [][NextRace]_vars

(***************************************************************************)
(* The sidebar alone: the four menus, and the fetches their handlers       *)
(* await.                                                                  *)
(***************************************************************************)
NextMenus ==
  \/ ClickView
  \/ MenuKnowledge
  \/ UploadsSettled
  \/ MenuStats
  \/ \E i \in DOMAIN tasks : TaskUsageSettled(i)
  \/ \E i \in DOMAIN tasks : TaskHistorySettled(i)

SpecMenus == Init /\ [][NextMenus]_vars

(***************************************************************************)
(* The same with a server that answers, a body that goes on to its end,    *)
(* and page fetches that settle.  For the two steps that run the frame     *)
(* loop, weak fairness is written out as []<>~enabled \/ []<>step, with    *)
(* the enabling condition of the step stated as a predicate of the state.  *)
(***************************************************************************)
\* A read is outstanding and its resolution (a chunk, or the end of the body) is a step.
ReadPending ==
  /\ stream.pc = "read"
  /\ \/ stream.pos < Len(Bytes(stream.sid))
     \/ Finish(Exhausted(stream)) # stream
     \/ last # NoLast

\* The history fetch of a frame's refresh is outstanding.
HistoryPending == stream.pc = "history"

LiveTurns ==
  /\ SpecTurns
  /\ WF_vars(StreamResponse(DOMAIN Scripts))
  /\ ([]<>~ReadPending \/ []<><<ReadChunk \/ ReadEnd>>_vars)
  /\ WF_vars(StreamUsageSettled)
  /\ ([]<>~HistoryPending \/ []<><<StreamHistorySettled>>_vars)

(***************************************************************************)

\* The frames of a text decoded in one piece: the frame-blocks before each blank line,
\* those without data text or with data text that is no JSON left out, up to the first
\* error or done frame.
RECURSIVE FramesOf(_)
FramesOf(text) ==
  LET sepIndex == IndexOfSep(text)
  IN IF sepIndex = -1 THEN <<>>
     ELSE LET blk == ParseBlock(SliceTo(text, sepIndex))
              rest == SliceFrom(text, sepIndex + 2)
              data == JSONParse(blk.dataJson)
          IN IF blk.dataJson = <<>> \/ data.kind = "error" THEN FramesOf(rest)
             ELSE IF blk.eventName \in {NameError, NameDone}
             THEN <<[name |-> blk.eventName, data |-> data]>>
             ELSE <<[name |-> blk.eventName, data |-> data]>> \o FramesOf(rest)

OneChunkFrames(bytes) == FramesOf(Decode(DecoderInit, bytes).text)

\* C1: however the bytes of a stream are cut into chunks, the frames runAgentStream has
\* decoded and dispatched when it waits for the next chunk are the frames of the bytes
\* read so far decoded as one chunk, and when it has ended they are the frames of the
\* whole stream decoded as one chunk.
C1_ChunkingInvariant ==
  /\ stream.pc = "read" =>
       stream.frames = OneChunkFrames(SubSeq(Bytes(stream.sid), 1, stream.pos))
  /\ (stream.outcome # "none" /\ stream.sid # 0) =>
       stream.frames = OneChunkFrames(Bytes(stream.sid))

\* A stream that was cut inside a multi-byte character has ended, and the delta frame
\* with that character was dispatched whole.
C1_Witness ==
  /\ stream.outcome = "returned"
  /\ stream.midChar
  /\ \E i \in 1..Len(stream.frames) :
       /\ stream.frames[i].name = NameDelta
       /\ stream.frames[i].data.val = <<233, 8364>>

(***************************************************************************)
(* What the frames dispatched so far amount to.                            *)
(***************************************************************************)
LastFrame(s) == s.frames[Len(s.frames)]

\* The conversation_id of the done frame a stream has ended with, Null if there is none.
DoneId(s) ==
  IF s.frames # <<>> /\ LastFrame(s).name = NameDone
  THEN Truthy(LastFrame(s).data, KeyConversationId) ELSE Null

DoneCount(frames) == Cardinality({i \in 1..Len(frames) : frames[i].name = NameDone})

\* The identity after the frames, from the identity before them (the one the message was
\* sent with, when nothing but the stream writes it).
RECURSIVE IdentityOf(_, _)
IdentityOf(frames, id) ==
  IF frames = <<>> THEN id
  ELSE LET f == Head(frames)
           x == Truthy(f.data, KeyConversationId)
       IN IdentityOf(Tail(frames), IF f.name \in {NameMeta, NameDone} /\ x # Null THEN x ELSE id)

\* The texts of the delta frames, joined.
RECURSIVE DeltasOf(_)
DeltasOf(frames) ==
  IF frames = <<>> THEN <<>>
  ELSE LET f == Head(frames)
       IN (IF f.name = NameDelta /\ HasString(f.data, KeyDelta) THEN f.data.val ELSE <<>>)
            \o DeltasOf(Tail(frames))

\* The step in which runAgentStream returns, and the step in which it dispatches frames.
Returns == stream.pc # "idle" /\ stream'.pc = "idle" /\ stream'.outcome = "returned"
Dispatches == stream'.sends = stream.sends /\ stream'.frames # stream.frames

\* C2: in a stream that ends with a done frame carrying conversation_id X, the identity is
\* X once the frame is dispatched, the stream has one done frame when runAgentStream
\* returns, and the identity is then X unless a row of the history list was clicked while
\* the done frame's page fetches were awaited, in which case it is that row's conversation.
C2_DoneIdentity ==
  [][/\ (Dispatches /\ DoneId(stream') # Null) => conversationId' = DoneId(stream')
     /\ (Returns /\ DoneId(stream') # Null) =>
          /\ DoneCount(stream'.frames) = 1
          /\ conversationId' = IF stream'.cur.switched = Null
                               THEN DoneId(stream') ELSE stream'.cur.switched]_vars

\* runAgentStream has returned from a done frame with c2 handled while the view was
\* visible, and the identity is c2.
C2_Witness ==
  /\ stream.pc = "idle"
  /\ stream.outcome = "returned"
  /\ DoneId(stream) = IdC2
  /\ stream.cur.vis
  /\ stream.cur.switched = Null
  /\ conversationId = IdC2

\* C2 as stated: whenever runAgentStream returns from a stream that ended with a done
\* frame carrying X, the identity is X.
C2_AsStated ==
  [][(Returns /\ DoneId(stream') # Null) =>
       (DoneCount(stream'.frames) = 1 /\ conversationId' = DoneId(stream'))]_vars

\* The byte source has ended with no done or error frame dispatched.
SourceExhausted ==
  /\ stream.pc = "idle"
  /\ stream.sid # 0
  /\ stream.pos = Len(Bytes(stream.sid))
  /\ stream.err.kind # "read"
  /\ \A i \in 1..Len(stream.frames) : stream.frames[i].name \notin {NameDone, NameError}

\* C3: when the byte source is exhausted before a done or error frame was dispatched,
\* runAgentStream reports a failure, and the identity a meta frame has set is kept.
C3_ExhaustionFails ==
  SourceExhausted =>
    (stream.outcome = "threw" /\ conversationId = IdentityOf(stream.frames, stream.payload.conversation_id))

PageCount(l) == IF l.total > 0 THEN Max(1, (l.total + l.pageSize - 1) \div l.pageSize) ELSE 1

\* C5: a click that asks the usage or the history list for page n, with n < 1 or with
\* total > 0 and n > page_count, sends no request and leaves the lists, the handlers in
\* flight and the stream as they are.
C5_NavNoOp ==
  [][(/\ last'.what = "nav"
      /\ \/ last'.n < 1
         \/ Lists[last'.ctl].total > 0 /\ last'.n > PageCount(Lists[last'.ctl]))
       => (~last'.issued
             /\ UNCHANGED <<conversationId, storage, usageVars, historyVars, tasks, stream>>)]_vars

\* With total = 25 and page_size = 20, page 2 of the usage list was fetched and the
\* click for page 3 sent no request.
C5_Witness ==
  /\ last.what = "nav"
  /\ last.op = "statsNext"
  /\ last.n = 3
  /\ ~last.issued
  /\ usageTotal = 25
  /\ usagePageSize = 20
  /\ usagePage = 2
  /\ \A i \in DOMAIN tasks : tasks[i] = NoTask

\* C6: when a page fetch fails and nothing else has run since the operation that asked
\* for it, the controller's list is what it was before that operation: the operation
\* has not written it.
C6_FailureKeepsState == (last.what = "fail" /\ last.alone) => ~last.wrote

\* C7: an error frame is the last frame dispatched: runAgentStream has failed with the
\* frame's message ('stream error' when it has none), and the text and the identity are
\* those of the frames up to it.
C7_ErrorTerminates ==
  \A i \in 1..Len(stream.frames) :
    stream.frames[i].name = NameError =>
      LET message == Truthy(stream.frames[i].data, KeyMessage)
      IN /\ i = Len(stream.frames)
         /\ stream.cur.name = NameError
         /\ stream.pc = "idle"
         /\ stream.outcome = "threw"
         /\ stream.err = [kind |-> "frame",
                          message |-> IF message # Null THEN message ELSE StreamErrorText]
         /\ stream.acc = DeltasOf(stream.frames)
         /\ conversationId = IdentityOf(stream.frames, stream.payload.conversation_id)

\* An error frame came in one chunk with the meta frame after it, and the identity is
\* not the one of that meta frame.
C7_Witness ==
  /\ stream.sid = 3
  /\ stream.outcome = "threw"
  /\ stream.err.kind = "frame"
  /\ stream.pos = Len(Bytes(3))
  /\ conversationId = Null
  /\ stream.acc = <<72, 105>>

\* C8: a done frame is the last frame dispatched: after it runAgentStream awaits the
\* frame's page fetches or has returned without error, it reads no more, and the text
\* and the identity are those of the frames up to it.
C8_DoneTerminates ==
  \A i \in 1..Len(stream.frames) :
    stream.frames[i].name = NameDone =>
      /\ i = Len(stream.frames)
      /\ stream.cur.name = NameDone
      /\ stream.err = NoErr
      /\ \/ stream.pc \in {"usage", "history"}
         \/ stream.pc = "idle" /\ stream.outcome = "returned"
      /\ stream.acc = DeltasOf(stream.frames)
      /\ conversationId = IdentityOf(stream.frames, stream.payload.conversation_id)

\* A done frame came in one chunk with the delta frame after it, and runAgentStream has
\* returned with no text.
C8_Witness ==
  /\ stream.sid = 2
  /\ stream.outcome = "returned"
  /\ stream.pos = Len(Bytes(2))
  /\ DoneId(stream) = IdC2
  /\ stream.acc = <<>>
  /\ conversationId = IdC2

Handled5 == {NameMeta, NameDelta, NameStats, NameError, NameDone}

\* C9: a frame-block with no data text or with data text that is no JSON reaches no
\* handler, and one with an unknown name has no effect: only meta, stats and done frames
\* fetch pages, only an error frame makes runAgentStream fail, the text and the identity
\* are those of the delta, meta and done frames, and the frames after it are dispatched.
C9_MalformedDropped ==
  /\ \A i \in 1..Len(stream.frames) : stream.frames[i].data.kind # "error"
  /\ stream.pc \in {"usage", "history"} => stream.cur.name \in {NameMeta, NameStats, NameDone}
  /\ stream.err.kind = "frame" => LastFrame(stream).name = NameError
  /\ stream.acc = DeltasOf(stream.frames)
  /\ conversationId = IdentityOf(stream.frames, stream.payload.conversation_id)
  /\ (stream.sid = 4 /\ stream.pc = "idle") =>
       LET known == SelectSeq(stream.frames, LAMBDA f : f.name \in Handled5)
       IN /\ [i \in 1..Len(known) |-> known[i].name] = <<NameMeta, NameDelta>>
          /\ stream.outcome = "returned"
          /\ stream.err = NoErr

\* The stream with the three malformed frame-blocks has ended: the delta frame after
\* them gave its text.
C9_Witness ==
  /\ stream.sid = 4
  /\ stream.pc = "idle"
  /\ stream.outcome = "returned"
  /\ stream.acc = <<72, 105>>
  /\ conversationId = IdC1

\* C10: when the response has a status that is not OK, a content type that is not
\* text/event-stream, or no body, runAgentStream fails at once: no frame is decoded,
\* onDelta is not called, and the identity and the two lists are left as they are.
C10_FailsFast ==
  [][(/\ stream.pc = "open"
      /\ stream'.pc # "open"
      /\ stream'.resp.net
      /\ \/ ~stream'.resp.ok
         \/ stream'.resp.ct \notin {CtEventStream, CtEventStreamCharset}
         \/ ~stream'.resp.body)
       => (/\ stream'.pc = "idle"
           /\ stream'.outcome = "threw"
           /\ stream'.err.kind \in {"http", "notstream"}
           /\ stream'.frames = <<>>
           /\ stream'.acc = <<>>
           /\ stream'.pos = 0
           /\ UNCHANGED <<conversationId, storage, usageVars, historyVars>>)]_vars

\* The response was OK with a JSON content type, and runAgentStream has failed.
C10_Witness ==
  /\ stream.outcome = "threw"
  /\ stream.err.kind = "notstream"
  /\ stream.resp.ok
  /\ stream.resp.ct = CtJson
  /\ stream.frames = <<>>

\* C11: no stream request is sent with a message that is empty after trimming: the
\* submit handler returns on it, and runAgentStream called with it sends nothing.
C11_EmptyNeverOpens == stream.pc = "open" => Trim(stream.payload.message) # <<>>

\* Whether the frame in hand is a meta frame with a conversation_id or a done frame.
Establishes(s) ==
  /\ s.frames # <<>>
  /\ s.cur.name = LastFrame(s).name
  /\ \/ s.cur.name = NameDone
     \/ s.cur.name = NameMeta /\ Truthy(LastFrame(s).data, KeyConversationId) # Null

\* C12: a meta frame with a conversation_id, or a done frame, dispatched while the view
\* is hidden starts no page fetch; dispatched while the view is visible it starts a fetch
\* of page 1 of the usage list for the new identity and then a fetch of page 1 of the
\* history list.
C12_RefreshAtPageOne ==
  LET c == stream.cur
      id == IdentityOf(stream.frames, stream.payload.conversation_id)
  IN /\ (Establishes(stream) /\ ~c.vis) =>
          (stream.pc \notin {"usage", "history"} /\ c.reqs = <<>>)
     /\ (Establishes(stream) /\ c.vis /\ stream.pc = "usage") =>
          (Len(c.reqs) = 1 /\ c.reqs[1].ctl = "usage" /\ c.reqs[1].page = 1 /\ c.reqs[1].cid = id)
     /\ (Establishes(stream) /\ c.vis /\ stream.pc = "history") =>
          /\ Len(c.reqs) = 2
          /\ c.reqs[1].ctl = "usage" /\ c.reqs[1].page = 1 /\ c.reqs[1].cid = id
          /\ c.reqs[2].ctl = "history" /\ c.reqs[2].page = 1

\* C13: the step in which a usage or history fetch delivers replaces the list's page,
\* page size, total and items together from the response and leaves the other list as it
\* is; the page and the page size are the ones in the body when it has them (else the
\* page asked for and the page size held), the total and the items the body's (else 0
\* and none).
C13_ReplacedTogether ==
  [][last'.what = "ok" =>
       LET r == last'.resp
           ctl == last'.ctl
           other == IF ctl = "usage" THEN "history" ELSE "usage"
       IN /\ Lists'[ctl] =
               [page |-> IF "page" \in r.has THEN r.page ELSE last'.n,
                pageSize |-> IF "page_size" \in r.has THEN r.page_size ELSE Lists[ctl].pageSize,
                total |-> IF "total" \in r.has THEN r.total ELSE 0,
                items |-> IF "items" \in r.has THEN r.items ELSE <<>>]
          /\ Lists'[other] = Lists[other]]_vars

\* Page 2 of the usage list was asked for and the server answered with page 1: the list
\* is on page 1, with the body's rows.
C13_Witness ==
  /\ last.what = "ok"
  /\ last.ctl = "usage"
  /\ last.n = 2
  /\ last.resp.page = 1
  /\ usagePage = 1
  /\ usageItems = last.resp.items
  /\ usageItems # <<>>

\* C14: in every state each of the two lists has page_size >= 1, total >= 0 and
\* 1 <= page <= page_count.
C14_PageInRange ==
  \A ctl \in {"usage", "history"} :
    LET l == Lists[ctl]
    IN l.pageSize >= 1 /\ l.total >= 0 /\ 1 <= l.page /\ l.page <= PageCount(l)

\* C15: a conversation identity that is set is the one that storage holds.
C15_PersistedIsCurrent == conversationId # Null => storage = conversationId

\* C16: no step takes the conversation identity from a conversation to none.
C16_NeverAbsentAgain == [][conversationId # Null => conversationId' # Null]_vars

\* A meta or a done frame with no conversation_id or an empty one was dispatched when
\* there was a conversation, and there still is one.
C16_Witness ==
  /\ conversationId # Null
  /\ \E i \in 1..Len(stream.frames) :
       /\ stream.frames[i].name \in {NameMeta, NameDone}
       /\ Truthy(stream.frames[i].data, KeyConversationId) = Null
       /\ IdentityOf(SubSeq(stream.frames, 1, i - 1), stream.payload.conversation_id) # Null

\* C17: in every state with no conversation the usage list is on page 1 with total 0 and
\* no items, and no fetch of a usage page is awaited.
C17_NoDataWithoutIdentity ==
  conversationId = Null =>
    /\ usagePage = 1 /\ usageTotal = 0 /\ usageItems = <<>>
    /\ stream.pc # "usage"
    /\ \A i \in DOMAIN tasks : tasks[i].pc # "usage"

\* The stats menu was clicked with no conversation: loadUsagePage has run and returned,
\* and the handler awaits the history list.
C17_Witness ==
  /\ conversationId = Null
  /\ ~viewStatsHidden
  /\ \E i \in DOMAIN tasks : tasks[i].kind = "menu" /\ tasks[i].pc = "history"
  /\ usagePage = 1 /\ usageTotal = 0 /\ usageItems = <<>>

\* C18: in every state in which no fetch of a usage page is awaited, the usage items held
\* are none or rows of the current conversation.
C18_ItemsOfCurrent ==
  (stream.pc # "usage" /\ \A i \in DOMAIN tasks : tasks[i].pc # "usage") =>
    \A k \in DOMAIN usageItems : usageItems[k].cid = conversationId

\* The usage list with no data.
NoData == [page |-> 1, pageSize |-> usagePageSize, total |-> 0, items |-> <<>>]

\* The step in which loadUsagePage runs and returns without a fetch: on a click on the
\* stats menu, or on the refresh of a frame, each going straight on to the history list.
LoadsUsageUnfetched ==
  \/ /\ clicks' = clicks + 1
     /\ \E i \in DOMAIN tasks :
          tasks[i] = NoTask /\ tasks'[i].kind = "menu" /\ tasks'[i].pc = "history"
  \/ /\ stream.pc \notin {"usage", "history"}
     /\ stream'.pc = "history"

\* C19: the reset of the usage list gives page 1, total 0 and no items, and the same on
\* a list that is reset already; a usage page load with no conversation leaves the list
\* so, the second time as the first, and starts no fetch of a usage page.
C19_ResetIdempotent ==
  [][/\ ResetUsage(Usage) = NoData
     /\ ResetUsage(ResetUsage(Usage)) = ResetUsage(Usage)
     /\ (conversationId = Null /\ LoadsUsageUnfetched) =>
          /\ Usage' = NoData
          /\ Usage' = ResetUsage(ResetUsage(Usage))
          /\ stream'.pc # "usage"
          /\ \A i \in DOMAIN tasks : tasks'[i].pc # "usage"]_vars

\* With no conversation the stats menu was clicked, and then a stats frame came while
\* the view was visible: the usage list was reset a second time, and the frame's only
\* fetch is the one of the history list.
C19_Witness ==
  /\ conversationId = Null
  /\ stream.cur.name = NameStats
  /\ stream.cur.vis
  /\ stream.pc = "history"
  /\ Len(stream.cur.reqs) = 1
  /\ Usage = NoData

\* C20: the frames dispatched are, in order, the first frames of the stream as it was
\* written; the text handed to onDelta so far is the texts of the delta frames among
\* them, joined in that order; and the identity, and the conversation of every usage
\* fetch a frame starts, is the one the frames up to it have set.
C20_ArrivalOrder ==
  LET all == OneChunkFrames(Bytes(stream.sid))
      n == Len(stream.frames)
      id == IdentityOf(stream.frames, stream.payload.conversation_id)
  IN stream.sid # 0 =>
       /\ n <= Len(all)
       /\ stream.frames = SubSeq(all, 1, n)
       /\ stream.acc = DeltasOf(SubSeq(all, 1, n))
       /\ conversationId = id
       /\ \A k \in DOMAIN stream.cur.reqs :
            stream.cur.reqs[k].ctl = "usage" => stream.cur.reqs[k].cid = id
       /\ (stream.sid = 5 /\ stream.outcome = "returned") => stream.acc = <<233, 8364, 97, 98>>

\* The stream with two delta frames, an unnamed frame and a done frame has returned:
\* the text is the first delta's and then the second's.
C20_Witness ==
  /\ stream.sid = 5
  /\ stream.outcome = "returned"
  /\ Len(stream.frames) = 4
  /\ stream.acc = <<233, 8364, 97, 98>>

\* C21: when runAgentStream has ended with an error frame, the text handed to onDelta is
\* still the joined texts of the delta frames before it, and the error of the frame is
\* the one the submit handler shows.
C21_PartialTextKept ==
  (stream.outcome = "threw" /\ stream.err.kind = "frame") =>
     /\ LastFrame(stream).name = NameError
     /\ stream.acc = DeltasOf(OneChunkFrames(Bytes(stream.sid)))
     /\ stream.err.message \in {Truthy(LastFrame(stream).data, KeyMessage), StreamErrorText}
     /\ stream.err.message # Null

\* The stream with a delta frame 'Hi' and then an error frame 'boom' has ended: the text
\* is 'Hi' and the error is 'boom'.
C21_Witness ==
  /\ stream.outcome = "threw"
  /\ stream.err = [kind |-> "frame", message |-> <<98, 111, 111, 109>>]
  /\ stream.acc = <<72, 105>>
  /\ ~stream.busy

\* The step in which reader.read() gives the end of the body.
EndOfData ==
  /\ stream.pc = "read"
  /\ stream'.pc = "idle"
  /\ stream'.pos = stream.pos
  /\ stream'.outcome = "returned"

\* C22: the step at the end of the body dispatches nothing and writes nothing, whatever
\* is left in the buffer: the frames, the text, the identity, storage and the lists are
\* as before it.  The stream that ends in an error block without its blank line ends
\* without an error, the one that ends in a done block without it has dispatched no done
\* frame, the one that is a meta block without it leaves the identity the message was
\* sent with, and the one that ends in a delta block without it leaves no text.
C22_TailDiscarded ==
  [][EndOfData =>
       /\ stream'.frames = stream.frames
       /\ stream'.acc = stream.acc
       /\ stream'.err = NoErr
       /\ UNCHANGED <<conversationId, storage, usageVars, historyVars, dom>>
       /\ stream.sid = 4 => \A i \in DOMAIN stream'.frames : stream'.frames[i].name # NameDone
       /\ stream.sid = 8 => (Len(stream'.frames) = 1 /\ stream'.acc = <<72, 105>>)
       /\ stream.sid = 9 =>
            (stream'.frames = <<>> /\ conversationId' = stream.payload.conversation_id)
       /\ stream.sid = 10 => (stream'.acc = <<>> /\ conversationId' = IdC1)]_vars

\* The stream 'Hi' and then an error block without its blank line has ended: one frame
\* was dispatched and the call has returned with no error.
C22_Witness ==
  /\ stream.sid = 8
  /\ stream.outcome = "returned"
  /\ stream.pos = Len(Bytes(8))
  /\ Len(stream.frames) = 1
  /\ stream.acc = <<72, 105>>
  /\ stream.err = NoErr

\* The step in which a message is sent.
Sends == stream'.sends = stream.sends + 1

\* C23: a message is sent with the conversation_id that is the identity at that moment,
\* and with none when there is no conversation: the first message with the stored
\* conversation, a later one with the identity the frames of the stream before it have
\* left.
C23_PayloadIdentity ==
  [][Sends =>
       /\ stream'.payload.conversation_id = conversationId
       /\ stream'.payload.conversation_id =
            IF stream.sends = 0 THEN LoadStoredConversationId(storage)
            ELSE IdentityOf(stream.frames, stream.payload.conversation_id)]_vars

\* The first message was sent with no conversation_id, its stream set the identity c2,
\* and the second message is sent with conversation_id c2.
C23_Witness ==
  /\ stream.sends = 2
  /\ stream.pc = "open"
  /\ stream.payload.conversation_id = IdC2
  /\ storage = IdC2

\* How many fetches for a list are awaited.
Outstanding(ctl) ==
  Cardinality({i \in DOMAIN tasks : tasks[i].pc = ctl}) + (IF stream.pc = ctl THEN 1 ELSE 0)

\* C24: when a fetch for a list delivers while another fetch for the same list is
\* awaited, or right after another fetch for the same list has delivered, the list is
\* the one of its response, whichever of the two was asked for first.
C24_LastResolvedWins ==
  [][(/\ last'.what = "ok"
      /\ \/ Outstanding(last'.ctl) >= 2
         \/ last'.prev.what = "ok" /\ last'.prev.ctl = last'.ctl)
       => LET r == last'.resp
              ctl == last'.ctl
          IN Lists'[ctl] =
               [page |-> IF "page" \in r.has THEN r.page ELSE last'.n,
                pageSize |-> IF "page_size" \in r.has THEN r.page_size ELSE Lists[ctl].pageSize,
                total |-> IF "total" \in r.has THEN r.total ELSE 0,
                items |-> IF "items" \in r.has THEN r.items ELSE <<>>]]_vars

\* A click on statsNext asked for page 2 of the usage list while the fetch of page 1 for
\* a frame of the stream was awaited; page 2 was delivered, and then page 1: the list is
\* on page 1 with the rows of page 1.
C24_Witness ==
  /\ last.what = "ok" /\ last.op = "frame" /\ last.ctl = "usage" /\ last.n = 1
  /\ last.prev.what = "ok" /\ last.prev.op = "nav" /\ last.prev.ctl = "usage" /\ last.prev.n = 2
  /\ usagePage = 1
  /\ usageItems = <<[cid |-> conversationId, page |-> 1]>>

\* C25: the step in which a page fetch of a frame's refresh fails does not end the call
\* with that failure and asks for nothing again.  After the usage fetch the history fetch
\* of the same frame follows and no frame is dispatched; after the history fetch a done
\* frame returns, and any other frame lets the loop go on: the frames that are whole in
\* the bytes read are dispatched, up to the next frame that awaits a fetch of its own,
\* and the call ends with an error only by an error frame among them.
C25_FetchFailureRecovered ==
  [][(last'.what = "fail" /\ last'.op = "frame") =>
       LET read == OneChunkFrames(SubSeq(Bytes(stream.sid), 1, stream.pos))
           n == Len(stream'.frames)
       IN /\ stream'.err.kind \in {"none", "frame"}
          /\ stream'.err.kind = "frame" =>
               (n > Len(stream.frames) /\ stream'.frames[n].name = NameError)
          /\ stream'.frames = SubSeq(read, 1, n)
          /\ last'.ctl = "usage" =>
               /\ stream'.pc = "history"
               /\ stream'.frames = stream.frames
               /\ stream'.cur.reqs = <<stream.req, HistoryRequest(historyPage, historyPageSize)>>
          /\ (last'.ctl = "history" /\ stream.cur.name = NameDone) =>
               (stream'.outcome = "returned" /\ stream'.frames = stream.frames)
          /\ (last'.ctl = "history" /\ stream.cur.name # NameDone) =>
               /\ stream'.pc \in {"usage", "history"} =>
                    (n > Len(stream.frames) /\ Len(stream'.cur.reqs) = 1)
               /\ stream'.pc = "read" => stream'.frames = read
               /\ stream'.acc = DeltasOf(stream'.frames)]_vars

\* The history fetch of a meta frame's refresh has failed, after which the delta frame
\* and the done frame behind it were dispatched: the text is 'Hi' and the done frame
\* awaits its own usage fetch.
C25_Witness ==
  /\ last.what = "fail" /\ last.op = "frame" /\ last.ctl = "history"
  /\ Len(stream.frames) = 3
  /\ stream.frames[1].name = NameMeta
  /\ stream.acc = <<72, 105>>
  /\ stream.cur.name = NameDone
  /\ stream.pc = "usage"

\* C26: the step in which the fetch of the upload list fails leaves the upload items as
\* they were.
C26_UploadsRetained ==
  [][(last'.what = "fail" /\ last'.op = "uploads") => uploadItems' = uploadItems]_vars

\* The requests for a list that are awaited.
Awaited(ctl) ==
  {tasks[i].req : i \in {j \in DOMAIN tasks : tasks[j].pc = ctl}}
    \cup (IF stream.pc = ctl THEN {stream.req} ELSE {})

\* C27: a step that changes a list makes it the list of a response that has delivered to
\* a fetch awaited for it, or, for the usage list, the list with no data.
C27_WholesaleOnly ==
  [][\A ctl \in {"usage", "history"} :
       Lists'[ctl] # Lists[ctl] =>
         \/ \E req \in Awaited(ctl) : \E r \in Responses(req) :
              /\ r.ok
              /\ Lists'[ctl] =
                   [page |-> IF "page" \in r.has THEN r.page ELSE req.page,
                    pageSize |-> IF "page_size" \in r.has THEN r.page_size
                                 ELSE Lists[ctl].pageSize,
                    total |-> IF "total" \in r.has THEN r.total ELSE 0,
                    items |-> IF "items" \in r.has THEN r.items ELSE <<>>]
         \/ /\ ctl = "usage"
            /\ Lists'[ctl] = [page |-> 1, pageSize |-> Lists[ctl].pageSize, total |-> 0,
                              items |-> <<>>]]_vars

\* C28: a call of runAgentStream that has started comes to its end, returned or thrown;
\* and a read that fails ends it thrown.
C28_SendTerminates ==
  /\ (stream.pc # "idle") ~> (stream.pc = "idle" /\ stream.outcome \in {"returned", "threw"})
  /\ [](stream.err.kind = "read" => (stream.pc = "idle" /\ stream.outcome = "threw"))

\* A call has ended because a read has failed.
C28_Witness ==
  /\ stream.pc = "idle"
  /\ ~stream.busy
  /\ stream.outcome = "threw"
  /\ stream.err.kind = "read"
  /\ stream.frames # <<>>

\* C29: through the form the controls are disabled exactly while a call of
\* runAgentStream is in flight, a call starts only from the idle form with the
\* controls enabled, and the end of a call, however it ends, enables them again.
C29_OneInFlight ==
  /\ [](stream.busy <=> stream.pc # "idle")
  /\ [][stream'.sends # stream.sends =>
          /\ stream.pc = "idle" /\ ~stream.busy
          /\ stream'.pc = "open" /\ stream'.busy]_vars
  /\ [][stream.pc # "idle" /\ stream'.pc = "idle" =>
          ~stream'.busy /\ stream'.outcome \in {"returned", "threw"}]_vars

\* The first call has ended and the second message is in flight, frames taken, the
\* controls disabled again.
C29_Witness ==
  /\ stream.sends = MaxTurns
  /\ stream.busy
  /\ stream.pc = "read"
  /\ stream.frames # <<>>

\* The page fetches issued so far for the frame in hand, in the order of their issue.
OwnFetches == stream.cur.reqs

\* C30: the refresh of a frame issues its usage fetch alone, its history fetch when
\* the usage fetch has settled (or at once when there is no conversation), and until
\* the last of them has settled no frame is dispatched and no read resolves: the call
\* never has two fetches of its own outstanding.
C30_RefreshSequential ==
  /\ [](stream.pc = "usage" =>
          /\ stream.req.ctl = "usage"
          /\ OwnFetches = <<stream.req>>)
  /\ [](stream.pc = "history" =>
          /\ stream.req.ctl = "history"
          /\ \/ OwnFetches = <<stream.req>> /\ NoConversation(conversationId)
             \/ /\ Len(OwnFetches) = 2
                /\ OwnFetches[1].ctl = "usage"
                /\ OwnFetches[2] = stream.req)
  /\ [](stream.pc \notin {"usage", "history"} => stream.req = NoReq /\ OwnFetches = <<>>)
  /\ [][stream.pc = "usage" =>
          /\ stream'.pc \in {"usage", "history"}
          /\ stream'.frames = stream.frames
          /\ stream'.pos = stream.pos
          /\ stream'.buffer = stream.buffer]_vars
  /\ [][stream.pc = "history" /\ stream'.pc = "history" =>
          /\ stream'.frames = stream.frames
          /\ stream'.pos = stream.pos
          /\ stream'.req = stream.req]_vars

\* The history fetch of a frame is outstanding, its usage fetch settled, and the next
\* frame-block is whole in the buffer.
C30_Witness ==
  /\ stream.pc = "history"
  /\ Len(OwnFetches) = 2
  /\ IndexOfSep(stream.buffer) # -1
  /\ stream.pos < Len(Bytes(stream.sid))

\* What a call leaves behind: how it ended, the frames it dispatched, the text it gave
\* and the identity.
Ending ==
  [outcome |-> stream.outcome, err |-> stream.err, frames |-> stream.frames,
   acc |-> stream.acc, conversationId |-> conversationId]

\* The ending of a call whose stream is one delta frame 'Hi' and then the end of the body.
DeltaOnlyEnding ==
  [outcome |-> "returned", err |-> NoErr,
   frames |-> <<[name |-> NameDelta,
                 data |-> [kind |-> "object", key |-> KeyDelta, val |-> <<72, 105>>, n |-> 1]]>>,
   acc |-> <<72, 105>>, conversationId |-> stream.payload.conversation_id]

\* C31: an error or done frame-block with no data text or with data text that is no JSON
\* is not dispatched and ends nothing: every error or done frame dispatched has a parsed
\* payload; in the stream of four such blocks and a delta frame the call neither fails nor
\* returns nor fetches before the end of the body, and the delta frame is dispatched; and
\* at the end of the body the call has ended as it does for the delta frame alone.
C31_MalformedTerminator ==
  /\ \A i \in 1..Len(stream.frames) :
       stream.frames[i].name \in {NameError, NameDone} => stream.frames[i].data.kind # "error"
  /\ stream.sid = 11 =>
       /\ stream.pc \in {"read", "idle"}
       /\ stream.err = NoErr
       /\ stream.pc = "idle" => stream.pos = Len(Bytes(11))
       /\ (stream.pc = "read" /\ stream.pos = Len(Bytes(11))) =>
            (stream.frames = DeltaOnlyEnding.frames /\ stream.acc = DeltaOnlyEnding.acc)
  /\ (stream.sid \in {11, 12} /\ stream.pc = "idle") => Ending = DeltaOnlyEnding

\* The stream of the four malformed error and done frame-blocks and the delta frame has
\* ended, by the end of its body, with the text of the delta frame.
C31_Witness ==
  /\ stream.sid = 11
  /\ stream.pc = "idle"
  /\ stream.pos = Len(Bytes(11))
  /\ stream.outcome = "returned"
  /\ stream.acc = <<72, 105>>
  /\ ~stream.busy
====
